---- MODULE Spec2Model ----
(***************************************************************************)
(* Model of the per-peer WebRTC session of neko (WebRTCPeerCtx) and of its *)
(* bandwidth-adaptation loop (estimatorReader).                            *)
(*                                                                         *)
(* Every exported method of WebRTCPeerCtx takes peer.mu for its whole body *)
(* (Lock + defer Unlock), so each method is one atomic action.  The        *)
(* estimatorReader goroutine takes no lock itself: it is modelled as a     *)
(* little program counter machine whose steps interleave with the methods. *)
(*                                                                         *)
(* Time is counted in units of conf.ReadInterval, bitrates in units of     *)
(* 50 kbit/s, diffThreshold in percent.                                    *)
(***************************************************************************)
EXTENDS Integers, Sequences, FiniteSets, TLC

\* ---------------------------------------------------------------- bounds
NumStreams == 2
MaxSignals == 1
NumCallers == 2
MaxFrames == 2
\* conf.StableDuration etc., in units of conf.ReadInterval
StableDuration == 2
UnstableDuration == 2
StalledDuration == 2
UpgradeBackoff == 2
DowngradeBackoff == 2

VARIABLES
  \* configuration, immutable after construction
  estimator,          \* peer.estimator # nil
  passive,            \* peer.estimatorConfig.Passive
  diffThreshold,      \* peer.estimatorConfig.DiffThreshold, in percent
  iceTrickle,         \* peer.iceTrickle
  mu,                 \* peer.mu: who holds it between two steps
  \* CreateOffer / CreateAnswer calls: each caller's position, the kind of its
  \* call and what the call returned; the transport's ICE gathering state and
  \* the channel of GatheringCompletePromise
  callPc, callKind, callResult, gatherState, promise,
  \* data channel: peer.session.IsHost(), the number of frames written to
  \* peer.dataChannel, the last of them, what the last SendCursor* call returned
  isHost, dcFrames, dcLast, cursorErr,
  \* peer state
  paused, videoAuto, videoDisabled, audioDisabled,
  videoTrackPaused, audioTrackPaused,
  videoStream,        \* ID of the stream bound to videoTrack, 0 when none
  connState,          \* peer.connection.ConnectionState()
  closeCalls,         \* number of peer.connection.Close() invocations
  videoSignals,       \* goroutines spawned by SetVideo, not yet through Video()
  audioSignals,       \* goroutines spawned by SetAudio, not yet through Audio()
  videoSending,       \* goroutines holding a Video() result, in session.Send
  audioSending,       \* goroutines holding an Audio() result, in session.Send
  \* estimatorReader: position, the ticker's channel, the iteration's locals
  loopPc, tickPending,
  metricSet,          \* the target bitrate metric was set for the last tick taken
  loopErr,            \* err of the loop's SetVideo call, until it is dropped
  targetBitrate, direction, streamId, streamBitrate,
  \* estimatorReader's time.Time locals, each held as the time elapsed since it
  stableSince, unstableSince, stalledSince, lastUpgradeTime, lastDowngradeTime,
  \* time elapsed since estimatorReader started, and since it last called
  \* SetVideo with a Higher / a Lower selector
  sinceStart, sinceUpReq, sinceDownReq,
  \* time elapsed since the last iteration that took the downgrade path, and
  \* since the loop last was not on it (its start, or an iteration that was
  \* idle or took the upgrade path)
  sinceDownPath, sinceNotDown

cursorVars == <<isHost, dcFrames, dcLast, cursorErr>>
confVars == <<estimator, passive, diffThreshold, iceTrickle>>
negVars == <<callPc, callKind, callResult, gatherState, promise>>
flagVars == <<paused, videoAuto, videoDisabled, audioDisabled>>
trackVars == <<videoTrackPaused, audioTrackPaused, videoStream>>
connVars == <<connState, closeCalls>>
signalVars == <<videoSignals, audioSignals>>
sendVars == <<videoSending, audioSending>>
peerVars == <<flagVars, trackVars, connVars, signalVars, sendVars>>
sampleVars == <<targetBitrate, direction, streamId, streamBitrate>>
timerVars == <<stableSince, unstableSince, stalledSince, lastUpgradeTime, lastDowngradeTime>>
reqVars == <<sinceStart, sinceUpReq, sinceDownReq, sinceDownPath, sinceNotDown>>
loopVars == <<loopPc, loopErr, sampleVars, timerVars, reqVars>>
clockVars == <<tickPending, metricSet>>
vars == <<confVars, mu, negVars, cursorVars, peerVars, loopVars, clockVars>>

\* ------------------------------------------------------------------ time
\* A time.Time t is held as time.Since(t), counted in ReadIntervals up to the
\* horizon of t: the largest value the code's comparisons with it can tell
\* apart.  TimeNow is time.Now(); LongAgo is time.Time{}, whose time.Since
\* exceeds every configured duration.
TimeNow == 0
LongAgo(horizon) == horizon
Since(t) == t
Elapse(t, horizon) == IF t < horizon THEN t + 1 ELSE t
\* "never": one more than the horizon, and it stays
Never(horizon) == horizon + 1

StartHorizon ==
  IF StalledDuration + 1 > StableDuration THEN StalledDuration + 1 ELSE StableDuration

\* --------------------------------------------------------------- peer.mu
\* Every exported method is "peer.mu.Lock(); defer peer.mu.Unlock(); ...".
Free == "free"

\* peer.mu.Lock() returns
MuAvailableAlways(holder) == TRUE
MuAvailable(holder) == holder = Free

\* the deferred peer.mu.Unlock() as task returns
UnlockNever(task) == task
Unlock(task) == Free

\* a method that locks, runs and unlocks within one step
Locked == MuAvailable(mu) /\ UNCHANGED mu

\* ------------------------------------------------------------ value sets
Callers == 1..NumCallers
Directions == {"Upward", "Neutral", "Downward"}
SelectorTypes == {"Exact", "Higher", "Lower"}
StreamIDs == 1..NumStreams
\* estimator.GetTargetBitrate() samples and stream.Bitrate() values (50 kbit/s)
Targets == {10, 22, 23, 30}
Bitrates == {0, 20}
DiffThresholds == {-10, 15}

\* An optional field of a request (a Go pointer): <<>> is nil, <<v>> is &v.
Opt(S) == {<<>>} \cup {<<v>> : v \in S}
Selectors == [type : SelectorTypes, id : 1..(NumStreams + 1)]
VideoRequests == [disabled : Opt(BOOLEAN), selector : Opt(Selectors), auto : Opt(BOOLEAN)]
AudioRequests == [disabled : Opt(BOOLEAN)]
\* The requests with at most one field present.  A request with several fields
\* acts as its fields applied in order, so these reach the same peer states.
OneFieldRequests ==
  {r \in VideoRequests :
     Cardinality({f \in {"disabled", "selector", "auto"} : r[f] # <<>>}) <= 1}


\* ---------------------------------------------------------- data channel
\* payload.Header is event: uint8, length: uint16; a frame is held as its two
\* header fields, the number of bytes after the header, and the coordinates
\* it carries
OP_CURSOR_POSITION == 1
OP_CURSOR_IMAGE == 2
PositionLength == 7
ImageLength == 11
Uint16Range == 65536
Uint16(n) == n % Uint16Range

NoFrame == [event |-> 0, length |-> 0, size |-> 0, data |-> <<>>]
\* x and y given to SendCursorPosition, len(img) given to SendCursorImage
Coordinates == {-1, 10, 65556}
ImageSizes == {0, 1000, 65524, 65525}

\* ------------------------------------------------------------------ Init
\* What the constructor may set videoAuto to: on only where an active
\* estimator exists.
InitialVideoAuto == IF estimator /\ ~passive THEN BOOLEAN ELSE {FALSE}

\* The state after construction: nothing paused or disabled, no stream bound
\* yet, a fresh PeerConnection, estimatorReader about to start.
Init ==
  /\ estimator \in BOOLEAN
  /\ passive \in BOOLEAN
  /\ diffThreshold \in DiffThresholds
  /\ iceTrickle \in BOOLEAN
  /\ mu = Free
  /\ callPc = [c \in Callers |-> "idle"]
  /\ callKind = [c \in Callers |-> "none"]
  /\ callResult = [c \in Callers |-> "none"]
  /\ gatherState = "new"
  /\ promise = "none"
  /\ isHost \in BOOLEAN
  /\ dcFrames = 0
  /\ dcLast = NoFrame
  /\ cursorErr = "none"
  /\ paused = FALSE
  /\ videoDisabled = FALSE
  /\ audioDisabled = FALSE
  /\ videoAuto \in InitialVideoAuto
  /\ videoTrackPaused = FALSE
  /\ audioTrackPaused = FALSE
  /\ videoStream = 0
  /\ connState = "New"
  /\ closeCalls = 0
  /\ videoSignals = 0
  /\ audioSignals = 0
  /\ videoSending = 0
  /\ audioSending = 0
  /\ loopPc = "start"
  /\ tickPending = FALSE
  /\ metricSet = FALSE
  /\ loopErr = "nil"
  /\ targetBitrate = 0
  /\ direction = "Neutral"
  /\ streamId = 0
  /\ streamBitrate = 0
  /\ stableSince = LongAgo(StableDuration)
  /\ unstableSince = LongAgo(UnstableDuration)
  /\ stalledSince = LongAgo(StalledDuration + 1)
  /\ lastUpgradeTime = LongAgo(UpgradeBackoff)
  /\ lastDowngradeTime = LongAgo(DowngradeBackoff)
  /\ sinceStart = Never(StartHorizon)
  /\ sinceUpReq = Never(UpgradeBackoff)
  /\ sinceDownReq = Never(DowngradeBackoff)
  /\ sinceDownPath = Never(StableDuration)
  /\ sinceNotDown = Never(UnstableDuration)

\* ------------------------------------------------------------ connection
\* The transport's own state changes (ICE/DTLS progress and loss).  Closed is
\* entered only through Close().
ConnTransitions ==
  { <<"New", "Connecting">>, <<"Connecting", "Connected">>,
    <<"Connecting", "Failed">>, <<"Connected", "Disconnected">>,
    <<"Disconnected", "Connected">>, <<"Disconnected", "Failed">>,
    <<"Failed", "Connecting">> }

ConnectionStateChange ==
  /\ UNCHANGED mu
  /\ \E t \in ConnTransitions : connState = t[1] /\ connState' = t[2]
  /\ UNCHANGED <<confVars, negVars, cursorVars, flagVars, trackVars, closeCalls,
                 signalVars, sendVars, loopVars, clockVars>>

\* Destroy: "if peer connection is not closed, close it"
ShouldCloseAlways(state) == TRUE
ShouldClose(state) == state # "Closed"

Destroy ==
  /\ Locked
  /\ IF ShouldClose(connState)
       THEN /\ connState' = "Closed"
            /\ closeCalls' = closeCalls + 1
       ELSE UNCHANGED <<connState, closeCalls>>
  /\ UNCHANGED <<confVars, negVars, cursorVars, flagVars, trackVars, signalVars,
                 sendVars, loopVars, clockVars>>

\* ----------------------------------------------------------- negotiation
DescriptionKinds == {"offer", "answer"}

\* "if !peer.iceTrickle": the call waits for ICE gathering to complete
WaitsForGatheringNever(trickle) == FALSE
WaitsForGathering(trickle) == ~trickle

\* webrtc.GatheringCompletePromise(peer.connection): a channel that is closed
\* once gathering is complete, at once if it already is
GatheringCompletePromise == IF gatherState = "complete" THEN "fired" ELSE "armed"

\* the position from which setLocalDescription reads LocalDescription()
ReturnsFrom == IF WaitsForGathering(iceTrickle) THEN "gathered" ELSE "described"

\* CreateOffer / CreateAnswer up to the transport's create-description
\* primitive; a failed primitive ends the call
CreateDescription(c, kind, fails) ==
  /\ callPc[c] = "idle"
  /\ MuAvailable(mu)
  /\ callKind' = [callKind EXCEPT ![c] = kind]
  /\ IF fails
       THEN /\ callResult' = [callResult EXCEPT ![c] = "error"]
            /\ UNCHANGED <<mu, callPc>>
       ELSE /\ callResult' = [callResult EXCEPT ![c] = "none"]
            /\ mu' = "negotiation"
            /\ callPc' = [callPc EXCEPT ![c] = "created"]
  /\ UNCHANGED <<confVars, cursorVars, gatherState, promise, peerVars, loopVars,
                 clockVars>>

\* setLocalDescription up to the return of connection.SetLocalDescription,
\* which starts ICE gathering (again, maybe, where it was complete)
SetLocalDescription(c, fails) ==
  /\ callPc[c] = "created"
  /\ promise' = IF WaitsForGathering(iceTrickle) THEN GatheringCompletePromise
                 ELSE promise
  /\ IF fails
       THEN /\ callResult' = [callResult EXCEPT ![c] = "error"]
            /\ callPc' = [callPc EXCEPT ![c] = "idle"]
            /\ mu' = Free
            /\ UNCHANGED gatherState
       ELSE /\ callPc' = [callPc EXCEPT ![c] = "described"]
            /\ gatherState' \in IF gatherState = "new" THEN {"gathering"}
                                 ELSE {gatherState, "gathering"}
            /\ UNCHANGED <<callResult, mu>>
  /\ UNCHANGED <<confVars, cursorVars, callKind, peerVars, loopVars, clockVars>>

\* "<-gatherComplete"
AwaitGathering(c) ==
  /\ callPc[c] = "described"
  /\ WaitsForGathering(iceTrickle)
  /\ promise = "fired"
  /\ callPc' = [callPc EXCEPT ![c] = "gathered"]
  /\ UNCHANGED <<confVars, cursorVars, mu, callKind, callResult, gatherState,
                 promise, peerVars, loopVars, clockVars>>

\* "return peer.connection.LocalDescription(), nil", and the deferred Unlock
ReturnDescription(c) ==
  /\ callPc[c] = ReturnsFrom
  /\ callResult' = [callResult EXCEPT ![c] = "description"]
  /\ callPc' = [callPc EXCEPT ![c] = "idle"]
  /\ promise' = "none"
  /\ mu' = Free
  /\ UNCHANGED <<confVars, cursorVars, callKind, gatherState, peerVars, loopVars,
                 clockVars>>

\* the transport finishes gathering and closes the promise's channel
GatheringProgress ==
  /\ gatherState = "gathering"
  /\ gatherState' = "complete"
  /\ promise' = IF promise = "armed" THEN "fired" ELSE promise
  /\ UNCHANGED <<confVars, cursorVars, mu, callPc, callKind, callResult, peerVars,
                 loopVars, clockVars>>

NegotiationNext ==
  \/ \E c \in Callers, kind \in DescriptionKinds, fails \in BOOLEAN :
       CreateDescription(c, kind, fails)
  \/ \E c \in Callers, fails \in BOOLEAN : SetLocalDescription(c, fails)
  \/ \E c \in Callers : AwaitGathering(c)
  \/ \E c \in Callers : ReturnDescription(c)
  \/ GatheringProgress

\* ---------------------------------------------------------- data channel
\* "do not send cursor position to host"
SkipsHostNever(host) == FALSE
SkipsHost(host) == host

\* the bytes binary.Write puts into the buffer for SendCursorPosition(x, y)
PositionFrame(x, y) ==
  [event |-> OP_CURSOR_POSITION, length |-> PositionLength,
   size |-> PositionLength, data |-> <<Uint16(x), Uint16(y)>>]

\* the bytes binary.Write puts into the buffer for SendCursorImage(cur, img)
ImageFrame(imgLen) ==
  [event |-> OP_CURSOR_IMAGE, length |-> Uint16(ImageLength + imgLen),
   size |-> ImageLength + imgLen, data |-> <<>>]

\* peer.dataChannel.Send(buffer.Bytes()); sendFails: the transport refuses
DataChannelSend(frame, sendFails) ==
  /\ Locked
  /\ IF sendFails
       THEN /\ cursorErr' = "TransportError"
            /\ UNCHANGED <<dcFrames, dcLast>>
       ELSE /\ cursorErr' = "nil"
            /\ dcFrames < MaxFrames
            /\ dcFrames' = dcFrames + 1
            /\ dcLast' = frame
  /\ UNCHANGED <<confVars, negVars, isHost, peerVars, loopVars, clockVars>>

SendCursorPosition(x, y, sendFails) ==
  IF SkipsHost(isHost)
    THEN /\ Locked
         /\ cursorErr' = "nil"
         /\ UNCHANGED <<confVars, negVars, isHost, dcFrames, dcLast, peerVars,
                        loopVars, clockVars>>
    ELSE DataChannelSend(PositionFrame(x, y), sendFails)

SendCursorImage(imgLen, sendFails) == DataChannelSend(ImageFrame(imgLen), sendFails)

\* the session is given or loses the host role
SetHost(host) ==
  /\ isHost' = host
  /\ UNCHANGED <<confVars, mu, negVars, dcFrames, dcLast, cursorErr, peerVars,
                 loopVars, clockVars>>

CursorNext ==
  \/ \E x \in Coordinates, y \in Coordinates, sendFails \in BOOLEAN :
       SendCursorPosition(x, y, sendFails)
  \/ \E imgLen \in ImageSizes, sendFails \in BOOLEAN : SendCursorImage(imgLen, sendFails)
  \/ \E host \in BOOLEAN : SetHost(host)

\* ---------------------------------------------------------------- paused
\* the argument SetPaused hands to a track's SetPaused
PausedTrackStateIgnoringDisabled(isPaused, kindDisabled) == isPaused
PausedTrackState(isPaused, kindDisabled) == isPaused \/ kindDisabled

SetPaused(isPaused) ==
  /\ Locked
  /\ videoTrackPaused' = PausedTrackState(isPaused, videoDisabled)
  /\ audioTrackPaused' = PausedTrackState(isPaused, audioDisabled)
  /\ paused' = isPaused
  /\ UNCHANGED <<confVars, negVars, cursorVars, videoAuto, videoDisabled,
                 audioDisabled, videoStream, connVars, signalVars, sendVars,
                 loopVars, clockVars>>

\* ----------------------------------------------------------------- video
\* peer.video.GetStream(selector): the stream ID the selector resolves to,
\* 0 when it resolves to none.  Streams are ordered by ID.
GetStream(sel) ==
  CASE sel.type = "Exact"  -> IF sel.id \in StreamIDs THEN sel.id ELSE 0
    [] sel.type = "Higher" -> IF sel.id \in StreamIDs /\ sel.id + 1 \in StreamIDs
                                THEN sel.id + 1 ELSE 0
    [] sel.type = "Lower"  -> IF sel.id \in StreamIDs /\ sel.id - 1 \in StreamIDs
                                THEN sel.id - 1 ELSE 0

\* "estimator is disabled or in passive mode, cannot change video auto"
CoerceAutoNever(requested) == requested
CoerceAuto(requested) ==
  IF ~estimator \/ passive THEN FALSE ELSE requested

\* what SetVideo returns from its selector block
SelectorErrSwallowed(found, setStreamFailed) ==
  IF ~found THEN "StreamNotFound" ELSE "nil"
SelectorErr(found, setStreamFailed) ==
  IF ~found THEN "StreamNotFound"
  ELSE IF setStreamFailed THEN "TransportError"
  ELSE "nil"

\* videoTrack.SetStream(stream): binds the track unless the transport rejects
\* the change; changed is false when the stream is the one already bound.
TrackSetStream(current, stream, rejected) ==
  IF current = stream THEN [stream |-> current, changed |-> FALSE, failed |-> FALSE]
  ELSE IF rejected THEN [stream |-> current, changed |-> FALSE, failed |-> TRUE]
  ELSE [stream |-> stream, changed |-> TRUE, failed |-> FALSE]

\* the selector block of SetVideo(r): the stream the selector resolves to (0:
\* none, or no selector), and what SetStream does with it.  rejected says
\* whether the transport rejects a stream change.
Resolved(r) == IF r.selector # <<>> THEN GetStream(r.selector[1]) ELSE 0

Bind(r, rejected) ==
  IF Resolved(r) # 0 THEN TrackSetStream(videoStream, Resolved(r), rejected)
  ELSE [stream |-> videoStream, changed |-> FALSE, failed |-> FALSE]

\* the error SetVideo(r) returns
SetVideoErr(r, rejected) ==
  IF r.selector # <<>> THEN SelectorErr(Resolved(r) # 0, Bind(r, rejected).failed)
  ELSE "nil"

\* "update only if stream changed": peer.metrics.SetVideoID(videoID) is called
PublishesVideoID(r, rejected) == Bind(r, rejected).changed

\* the modified flag when SetVideo(r) reaches its end
ModifiedIfRequested(r, rejected) ==
  r.disabled # <<>> \/ r.selector # <<>> \/ r.auto # <<>>
Modified(r, rejected) ==
  \/ r.disabled # <<>> /\ videoDisabled # r.disabled[1]
  \/ Bind(r, rejected).changed
  \/ r.auto # <<>> /\ videoAuto # CoerceAuto(r.auto[1])

SetVideo(r, rejected) ==
  LET setDisabled == r.disabled # <<>> /\ videoDisabled # r.disabled[1]
      err         == SetVideoErr(r, rejected)
  IN  /\ Locked
      /\ rejected => (Resolved(r) # 0 /\ Resolved(r) # videoStream)
      /\ videoDisabled' = IF setDisabled THEN r.disabled[1] ELSE videoDisabled
      /\ videoTrackPaused' = IF setDisabled THEN (r.disabled[1] \/ paused)
                             ELSE videoTrackPaused
      /\ videoStream' = Bind(r, rejected).stream
      /\ videoAuto' = IF err = "nil" /\ r.auto # <<>> THEN CoerceAuto(r.auto[1])
                      ELSE videoAuto
      /\ videoSignals' = IF err = "nil" /\ Modified(r, rejected)
                           THEN videoSignals + 1 ELSE videoSignals
      /\ videoSignals' + videoSending <= MaxSignals
      /\ UNCHANGED <<confVars, negVars, cursorVars, paused, audioDisabled,
                     audioTrackPaused, connVars, audioSignals, sendVars>>

\* a call of SetVideo from another goroutine, with a request of Requests
UserSetVideo(Requests) ==
  /\ \E r \in Requests, rejected \in BOOLEAN : SetVideo(r, rejected)
  /\ UNCHANGED <<loopVars, clockVars>>

\* the detached goroutine evaluates peer.Video(), the argument of Send
SnapshotVideo ==
  /\ videoSignals > 0
  /\ MuAvailable(mu)
  /\ mu' = Unlock("videoSignal")
  /\ videoSignals' = videoSignals - 1
  /\ videoSending' = videoSending + 1
  /\ UNCHANGED <<confVars, negVars, cursorVars, flagVars, trackVars, connVars,
                 audioSignals, audioSending, loopVars, clockVars>>

\* the detached goroutine: peer.session.Send(event.SIGNAL_VIDEO, ...) returns
SendVideoSignal ==
  /\ videoSending > 0
  /\ videoSending' = videoSending - 1
  /\ UNCHANGED <<confVars, mu, negVars, cursorVars, flagVars, trackVars, connVars,
                 signalVars, audioSending, loopVars, clockVars>>

\* the detached goroutine from its start to the return of Send, for where
\* nothing tells its two steps apart
SignalVideo ==
  /\ videoSignals > 0
  /\ Locked
  /\ videoSignals' = videoSignals - 1
  /\ UNCHANGED <<confVars, negVars, cursorVars, flagVars, trackVars, connVars,
                 audioSignals, sendVars, loopVars, clockVars>>

\* ----------------------------------------------------------------- audio
SetAudio(r) ==
  LET setDisabled == r.disabled # <<>> /\ audioDisabled # r.disabled[1]
  IN  /\ Locked
      /\ audioDisabled' = IF setDisabled THEN r.disabled[1] ELSE audioDisabled
      /\ audioTrackPaused' = IF setDisabled THEN (r.disabled[1] \/ paused)
                             ELSE audioTrackPaused
      /\ audioSignals' = IF setDisabled THEN audioSignals + 1 ELSE audioSignals
      /\ audioSignals' + audioSending <= MaxSignals
      /\ UNCHANGED <<confVars, negVars, cursorVars, paused, videoAuto, videoDisabled,
                     videoTrackPaused, videoStream, connVars, videoSignals,
                     sendVars, loopVars, clockVars>>

\* the detached goroutine evaluates peer.Audio(), the argument of Send
SnapshotAudio ==
  /\ audioSignals > 0
  /\ MuAvailable(mu)
  /\ mu' = Unlock("audioSignal")
  /\ audioSignals' = audioSignals - 1
  /\ audioSending' = audioSending + 1
  /\ UNCHANGED <<confVars, negVars, cursorVars, flagVars, trackVars, connVars,
                 videoSignals, videoSending, loopVars, clockVars>>

\* the detached goroutine: peer.session.Send(event.SIGNAL_AUDIO, ...) returns
SendAudioSignal ==
  /\ audioSending > 0
  /\ audioSending' = audioSending - 1
  /\ UNCHANGED <<confVars, mu, negVars, cursorVars, flagVars, trackVars, connVars,
                 signalVars, videoSending, loopVars, clockVars>>

\* ------------------------------------------------------- estimatorReader
\* diff > 1+conf.DiffThreshold and diff < 1+conf.DiffThreshold, for
\* diff = float64(targetBitrate) / float64(streamBitrate), streamBitrate > 0
DiffAbove(target, bitrate) == target * 100 > bitrate * (100 + diffThreshold)
DiffBelow(target, bitrate) == target * 100 < bitrate * (100 + diffThreshold)

\* "if peer connection is closed, stop reading"
LoopStopsNever(state) == FALSE
LoopStopsOnFailure(state) == state \in {"Closed", "Failed"}
LoopStops(state) == state = "Closed"

\* "if estimation or video is disabled, do nothing"
LoopIdle == ~videoAuto \/ videoDisabled \/ paused \/ passive

\* "if we downgraded recently, we wait for some more time"
DowngradedRecentlyIgnored(last) == FALSE
DowngradedRecently(last) == Since(last) < DowngradeBackoff

\* "if we upgraded recently, we wait for some more time"
UpgradedRecently(last) == Since(last) < UpgradeBackoff

\* "if we still have a big difference between target and stream bitrate"
StillFits(target, bitrate) == diffThreshold >= 0 /\ DiffAbove(target, bitrate)

\* "upgrade only if estimated bitrate passed the threshold"
NoHeadroomIgnored(target, bitrate) == FALSE
NoHeadroom(target, bitrate) == diffThreshold >= 0 /\ DiffBelow(target, bitrate)

\* "if we are not stable for long enough, we wait for some more time"
StableTooShortIgnored(since) == FALSE
StableTooShort(since) == Since(since) < StableDuration

\* the iteration's locals are dead once SetVideo is called or the iteration ends
ClearSample ==
  /\ targetBitrate' = 0
  /\ direction' = "Neutral"
  /\ streamId' = 0
  /\ streamBitrate' = 0

\* entry of estimatorReader up to the first wait on ticker.C
LoopStart ==
  /\ UNCHANGED <<mu, loopErr>>
  /\ loopPc = "start"
  /\ IF ~estimator
       THEN /\ loopPc' = "done"
            /\ UNCHANGED <<stableSince, sinceStart, sinceNotDown>>
       ELSE /\ loopPc' = "wait"
            /\ stableSince' = TimeNow
            /\ sinceStart' = TimeNow
            /\ sinceNotDown' = TimeNow
  /\ UNCHANGED <<confVars, negVars, cursorVars, peerVars, sampleVars, unstableSince, stalledSince,
                 lastUpgradeTime, lastDowngradeTime, sinceUpReq, sinceDownReq,
                 sinceDownPath, clockVars>>

\* one ReadInterval passes; a running ticker leaves a tick in its channel
Advance ==
  /\ UNCHANGED <<mu, loopErr>>
  /\ tickPending' = (loopPc \notin {"start", "done"})
  /\ metricSet' = IF tickPending' THEN FALSE ELSE metricSet
  /\ stableSince' = Elapse(stableSince, StableDuration)
  /\ unstableSince' = Elapse(unstableSince, UnstableDuration)
  /\ stalledSince' = Elapse(stalledSince, StalledDuration + 1)
  /\ lastUpgradeTime' = Elapse(lastUpgradeTime, UpgradeBackoff)
  /\ lastDowngradeTime' = Elapse(lastDowngradeTime, DowngradeBackoff)
  /\ sinceStart' = Elapse(sinceStart, StartHorizon)
  /\ sinceUpReq' = Elapse(sinceUpReq, UpgradeBackoff)
  /\ sinceDownReq' = Elapse(sinceDownReq, DowngradeBackoff)
  /\ sinceDownPath' = Elapse(sinceDownPath, StableDuration)
  /\ sinceNotDown' = Elapse(sinceNotDown, UnstableDuration)
  /\ UNCHANGED <<confVars, negVars, cursorVars, peerVars, loopPc, sampleVars>>

\* One iteration of "for range ticker.C", from the tick to the SetVideo call
\* or to a continue/break.  The iteration reads the peer's flags, then the
\* bound stream, without the lock; no write of another goroutine that falls
\* between the two reads is told apart from one before or after both, so the
\* reads are one step.  target, dir and bitrate are what the estimator, the
\* trend detector and stream.Bitrate() return in this iteration.
LoopTick ==
  /\ UNCHANGED <<mu, loopErr>>
  /\ loopPc = "wait"
  /\ tickPending
  /\ tickPending' = FALSE
  /\ metricSet' = TRUE
  /\ \E target \in Targets, dir \in Directions, bitrate \in Bitrates :
       IF LoopStops(connState)
         THEN /\ loopPc' = "done" /\ ClearSample
              /\ UNCHANGED <<timerVars, sinceDownPath, sinceNotDown>>
       ELSE IF LoopIdle \/ videoStream = 0 \/ bitrate = 0
         THEN /\ loopPc' = "wait" /\ ClearSample
              /\ sinceNotDown' = TimeNow
              /\ UNCHANGED <<timerVars, sinceDownPath>>
       ELSE
         LET stalledAt == IF dir # "Neutral" \/ DiffAbove(target, bitrate)
                            THEN TimeNow ELSE stalledSince
             stalled   == dir = "Neutral" /\ Since(stalledAt) > StalledDuration
             request   == /\ targetBitrate' = target
                          /\ direction' = dir
                          /\ streamId' = videoStream
                          /\ streamBitrate' = bitrate
         IN  /\ stalledSince' = stalledAt
             /\ IF dir = "Downward" \/ stalled
                  THEN /\ stableSince' = TimeNow
                       /\ sinceDownPath' = TimeNow
                       /\ UNCHANGED sinceNotDown
                       /\ UNCHANGED <<unstableSince, lastUpgradeTime, lastDowngradeTime>>
                       /\ IF \/ DowngradedRecently(lastDowngradeTime)
                             \/ Since(unstableSince) < UnstableDuration
                             \/ StillFits(target, bitrate)
                            THEN loopPc' = "wait" /\ ClearSample
                            ELSE loopPc' = "reqLower" /\ request
                  ELSE /\ unstableSince' = TimeNow
                       /\ sinceNotDown' = TimeNow
                       /\ UNCHANGED <<stableSince, lastUpgradeTime, lastDowngradeTime,
                                      sinceDownPath>>
                       /\ IF \/ UpgradedRecently(lastUpgradeTime)
                             \/ StableTooShort(stableSince)
                             \/ NoHeadroom(target, bitrate)
                            THEN loopPc' = "wait" /\ ClearSample
                            ELSE loopPc' = "reqHigher" /\ request
  /\ UNCHANGED <<confVars, negVars, cursorVars, peerVars, sinceStart, sinceUpReq, sinceDownReq>>

\* types.PeerVideoRequest{Selector: &types.StreamSelector{ID: id, Type: type}}
LoopRequestWithAuto(type, id) ==
  [disabled |-> <<>>, selector |-> <<[type |-> type, id |-> id]>>, auto |-> <<FALSE>>]
LoopRequest(type, id) ==
  [disabled |-> <<>>, selector |-> <<[type |-> type, id |-> id]>>, auto |-> <<>>]

\* peer.SetVideo(Selector{ID: streamId, Type: Lower})
LoopSetVideoLower ==
  /\ loopPc = "reqLower"
  /\ LET r == LoopRequest("Lower", streamId)
     IN  \E rejected \in BOOLEAN :
           SetVideo(r, rejected) /\ loopErr' = SetVideoErr(r, rejected)
  /\ loopPc' = "retLower"
  /\ sinceDownReq' = TimeNow
  /\ ClearSample
  /\ UNCHANGED <<timerVars, sinceStart, sinceUpReq, sinceDownPath, sinceNotDown,
                 clockVars>>

\* lastDowngradeTime = time.Now(), whatever SetVideo returned
LoopAfterLower ==
  /\ UNCHANGED mu
  /\ loopPc = "retLower"
  /\ lastDowngradeTime' = TimeNow
  /\ loopErr' = "nil"
  /\ loopPc' = "wait"
  /\ UNCHANGED <<confVars, negVars, cursorVars, peerVars, sampleVars, stableSince,
                 unstableSince, stalledSince, lastUpgradeTime, reqVars, clockVars>>

\* peer.SetVideo(Selector{ID: streamId, Type: Higher})
LoopSetVideoHigher ==
  /\ loopPc = "reqHigher"
  /\ LET r == LoopRequest("Higher", streamId)
     IN  \E rejected \in BOOLEAN :
           SetVideo(r, rejected) /\ loopErr' = SetVideoErr(r, rejected)
  /\ loopPc' = "retHigher"
  /\ sinceUpReq' = TimeNow
  /\ ClearSample
  /\ UNCHANGED <<timerVars, sinceStart, sinceDownReq, sinceDownPath, sinceNotDown,
                 clockVars>>

\* lastUpgradeTime = time.Now(), whatever SetVideo returned
LoopAfterHigher ==
  /\ UNCHANGED mu
  /\ loopPc = "retHigher"
  /\ lastUpgradeTime' = TimeNow
  /\ loopErr' = "nil"
  /\ loopPc' = "wait"
  /\ UNCHANGED <<confVars, negVars, cursorVars, peerVars, sampleVars, stableSince,
                 unstableSince, stalledSince, lastDowngradeTime, reqVars, clockVars>>

LoopNext ==
  \/ LoopStart
  \/ LoopTick
  \/ LoopSetVideoLower
  \/ LoopAfterLower
  \/ LoopSetVideoHigher
  \/ LoopAfterHigher

\* ------------------------------------------------------------------ Next
\* the operations other goroutines call on the peer
PeerNext ==
  \/ ConnectionStateChange
  \/ Destroy
  \/ \E isPaused \in BOOLEAN : SetPaused(isPaused)
  \/ UserSetVideo(VideoRequests)
  \/ SnapshotVideo
  \/ SendVideoSignal
  \/ \E r \in AudioRequests : SetAudio(r)
  \/ SnapshotAudio
  \/ SendAudioSignal

\* what estimatorReader can observe of them
LoopEnvNext ==
  \/ Destroy
  \/ \E isPaused \in BOOLEAN : SetPaused(isPaused)
  \/ UserSetVideo(OneFieldRequests)
  \/ SignalVideo

Next == PeerNext \/ NegotiationNext \/ CursorNext \/ Advance \/ LoopNext

Spec == Init /\ [][Next]_vars

\* The media operations and estimatorReader read nothing of the negotiation
\* or of the data channel, so one iceTrickle and one role do for them; the
\* negotiation reads nothing of the role.
MediaInit == Init /\ iceTrickle /\ ~isHost
NegotiationInit == Init /\ ~isHost

\* The peer's operations alone.  estimatorReader acts on the peer only through
\* SetVideo with a selector, which UserSetVideo includes.
PeerSpec == MediaInit /\ [][PeerNext]_vars

\* SetVideo alone, with the operations that write what it reads.
VideoNext ==
  \/ \E isPaused \in BOOLEAN : SetPaused(isPaused)
  \/ UserSetVideo(VideoRequests)
  \/ SnapshotVideo
  \/ SendVideoSignal

VideoSpec == MediaInit /\ [][VideoNext]_vars

\* The data channel's operations.
CursorSpec == Init /\ [][CursorNext]_vars

\* CreateOffer / CreateAnswer among the other operations of the peer.
NegotiationSpec ==
  NegotiationInit /\ [][NegotiationNext \/ Destroy \/ (\E isPaused \in BOOLEAN : SetPaused(isPaused))
                \/ UserSetVideo(OneFieldRequests) \/ SnapshotVideo
                \/ SendVideoSignal]_vars

\* The goroutines that send SIGNAL_VIDEO / SIGNAL_AUDIO, with calls that hold
\* peer.mu for long.
FlagRequests == {r \in OneFieldRequests : r.selector = <<>>}

SignalSpec ==
  NegotiationInit /\ [][NegotiationNext \/ UserSetVideo(FlagRequests) \/ SnapshotVideo
                \/ SendVideoSignal \/ (\E r \in AudioRequests : SetAudio(r))
                \/ SnapshotAudio \/ SendAudioSignal]_vars

\* estimatorReader, the clock, and the operations whose effects it reads.
LoopSpec == MediaInit /\ [][LoopEnvNext \/ Advance \/ LoopNext]_vars

\* estimatorReader while the transport connects, loses and regains its
\* connection, with the selector requests of other goroutines.
SelectorRequests == {r \in OneFieldRequests : r.disabled = <<>> /\ r.auto = <<>>}

ConnLoopSpec ==
  MediaInit /\ [][ConnectionStateChange \/ Destroy \/ UserSetVideo(SelectorRequests)
                    \/ SignalVideo \/ Advance \/ LoopNext]_vars

\* The goroutine running estimatorReader is scheduled, time passes, and a
\* sync.Mutex hands the lock to a waiter that keeps asking for it.
FairLoopSpec ==
  /\ LoopSpec
  /\ WF_vars(Advance) /\ SF_vars(LoopNext)
  /\ WF_vars(SignalVideo)

\* ---------------------------------------------------------------- claims
\* the loop calls SetVideo in this step
LoopRequests ==
  /\ loopPc \in {"reqLower", "reqHigher"}
  /\ loopPc' \in {"retLower", "retHigher"}

\* C1: after any sequence of SetPaused, SetVideo and SetAudio calls, the video
\* track is paused exactly when the peer is paused or video is disabled, and
\* the audio track exactly when the peer is paused or audio is disabled.
C1_TrackPausedIsPausedOrDisabled ==
  /\ videoTrackPaused = (paused \/ videoDisabled)
  /\ audioTrackPaused = (paused \/ audioDisabled)

\* video disabled then the peer unpaused: the video track stays paused, the
\* audio track runs
C1_Witness ==
  /\ ~paused /\ videoDisabled /\ videoTrackPaused
  /\ ~audioDisabled /\ ~audioTrackPaused

\* C2: estimatorReader never calls SetVideo with a Higher/Lower selector at a
\* moment when the peer is paused, video is disabled, videoAuto is off or the
\* estimator is passive.
C2_NoRequestWhileIdle == [][LoopRequests => ~LoopIdle]_vars

\* C3: without an estimator, or with a passive one, videoAuto (what Video()
\* reports as Auto) is false whatever SetVideo calls were made.
C3_NoAutoWithoutActiveEstimator == (~estimator \/ passive) => ~videoAuto

\* SetVideo has acted (a stream is bound, video is disabled) on a peer without
\* an active estimator
C3_Witness ==
  /\ ~estimator \/ passive
  /\ videoStream # 0 /\ videoDisabled /\ ~videoAuto

\* C4: a SetVideo call with a selector that returns no error leaves the video
\* track bound to the stream the selector resolved to; a call whose selector
\* resolves to no stream returns StreamNotFound and leaves the binding alone.
C4_SelectorBindsOrNotFound ==
  [][\A r \in VideoRequests, rejected \in BOOLEAN :
       (r.selector # <<>> /\ SetVideo(r, rejected)) =>
         /\ SetVideoErr(r, rejected) = "nil" =>
              (Resolved(r) # 0 /\ videoStream' = Resolved(r))
         /\ Resolved(r) = 0 =>
              (SetVideoErr(r, rejected) = "StreamNotFound" /\ videoStream' = videoStream)]_vars

\* the track is bound to the highest stream: some selector call succeeded
C4_Witness == videoStream = NumStreams

\* C5: however often Destroy is called, the connection's Close is invoked at
\* most once, and exactly when the connection has become Closed.
C5_CloseAtMostOnce ==
  /\ closeCalls <= 1
  /\ (connState = "Closed") <=> (closeCalls = 1)

\* Destroy has closed the connection; every later Destroy leaves this state
C5_Witness == closeCalls = 1 /\ connState = "Closed"

\* C6: every SetVideo call that changes videoDisabled, the bound stream or
\* videoAuto spawns the goroutine that sends SIGNAL_VIDEO.
C6_ChangeIsSignalled ==
  [][(\/ videoDisabled' # videoDisabled
      \/ videoStream' # videoStream
      \/ videoAuto' # videoAuto) => videoSignals' = videoSignals + 1]_vars

\* C7: once the connection is Closed, estimatorReader ends, and the iteration
\* that observes Closed calls no SetVideo.
C7_LoopEndsAfterClosed ==
  /\ (connState = "Closed") ~> (loopPc = "done")
  /\ [][(loopPc = "wait" /\ connState = "Closed") => loopPc' \in {"wait", "done"}]_vars

\* the loop had issued a downgrade before it ended on Closed
C7_Witness ==
  /\ estimator /\ connState = "Closed" /\ loopPc = "done"
  /\ sinceDownReq <= DowngradeBackoff

\* C8: the loop calls SetVideo(Lower) only when at least DowngradeBackoff has
\* passed since its previous SetVideo(Lower) call, and SetVideo(Higher) only
\* when at least UpgradeBackoff has passed since its previous SetVideo(Higher).
C8_BackoffBetweenRequests ==
  /\ loopPc = "reqLower" => sinceDownReq >= DowngradeBackoff
  /\ loopPc = "reqHigher" => sinceUpReq >= UpgradeBackoff

\* a second downgrade request, once the backoff is over
C8_Witness == loopPc = "reqLower" /\ sinceDownReq = DowngradeBackoff

\* C9: on a Neutral tick the loop requests a downgrade only after it has been
\* stalled for longer than StalledDuration, so not before StalledDuration has
\* passed since the loop started.
C9_NoStalledDowngradeBeforeStalledDuration ==
  (loopPc = "reqLower" /\ direction = "Neutral") => sinceStart > StalledDuration

\* C10: with diffThreshold >= 0 the loop requests an upgrade only on a tick
\* with diff >= 1+diffThreshold and a downgrade only on one with
\* diff <= 1+diffThreshold.
C10_RequestsRespectThreshold ==
  diffThreshold >= 0 =>
    /\ loopPc = "reqHigher" => ~DiffBelow(targetBitrate, streamBitrate)
    /\ loopPc = "reqLower" => ~DiffAbove(targetBitrate, streamBitrate)

\* an upgrade requested with diff exactly 1+diffThreshold
C10_Witness ==
  /\ loopPc = "reqHigher" /\ diffThreshold >= 0
  /\ targetBitrate * 100 = streamBitrate * (100 + diffThreshold)

\* C11: the loop requests an upgrade no earlier than StableDuration after it
\* started and no earlier than StableDuration after the last iteration that
\* took the downgrade path, whether or not that iteration requested anything.
C11_NoUpgradeBeforeStable ==
  loopPc = "reqHigher" =>
    /\ sinceStart >= StableDuration
    /\ sinceDownPath >= StableDuration

\* an upgrade requested once StableDuration has passed since an iteration on
\* the downgrade path that requested nothing (no downgrade since the start)
C11_Witness ==
  /\ loopPc = "reqHigher"
  /\ sinceDownPath = StableDuration
  /\ sinceDownReq = Never(DowngradeBackoff)

\* a caller is between the create-description primitive and its return
InFlight == {c \in Callers : callPc[c] # "idle"}

\* C12: at most one CreateOffer / CreateAnswer call is between the transport's
\* create-description primitive and its return, the wait for ICE gathering
\* included, and while one is no other operation changes the peer.
C12_OneDescriptionInFlight ==
  /\ [](Cardinality(InFlight) <= 1)
  /\ [][InFlight # {} =>
          UNCHANGED <<flagVars, trackVars, closeCalls, signalVars>>]_vars

\* a CreateOffer waits for gathering; the other caller's CreateAnswer has
\* returned before it, and the peer has been paused
C12_Witness ==
  /\ \E c \in Callers, d \in Callers :
       /\ callPc[c] = "described" /\ callKind[c] = "offer"
       /\ callKind[d] = "answer" /\ callResult[d] = "description"
  /\ ~iceTrickle /\ promise = "armed" /\ paused

\* C19: with iceTrickle = false a call obtains the gathering-complete promise
\* before SetLocalDescription returns, and returns a description only from
\* behind the wait, once the promise has fired; with iceTrickle = true it
\* returns straight after SetLocalDescription; a call that fails returns its
\* error from before the wait, and a call that got past SetLocalDescription
\* returns a description.
C19_GatherBeforeReturn ==
  [][\A c \in Callers :
       /\ (callPc[c] = "created" /\ callPc'[c] = "described" /\ ~iceTrickle)
            => promise' # "none"
       /\ (callPc[c] # "idle" /\ callPc'[c] = "idle" /\ callResult'[c] = "description")
            => /\ ~iceTrickle => (callPc[c] = "gathered" /\ promise = "fired")
               /\ iceTrickle => callPc[c] = "described"
       /\ (callResult'[c] = "error" /\ (callResult[c] # "error" \/ callPc'[c] # callPc[c]))
            => (callPc[c] \in {"idle", "created"} /\ callPc'[c] = "idle")
       /\ (callPc[c] \in {"described", "gathered"} /\ callPc'[c] = "idle")
            => callResult'[c] = "description"]_vars

\* without trickle: one call has returned a description after gathering
\* completed, another has failed
C19_Witness ==
  /\ ~iceTrickle /\ gatherState = "complete"
  /\ \E c \in Callers, d \in Callers :
       callResult[c] = "description" /\ callResult[d] = "error"

\* the iteration reaches "if !peer.videoAuto || peer.videoDisabled || peer.paused"
LoopReadsFlags ==
  /\ loopPc = "wait" /\ tickPending /\ ~tickPending'
  /\ ~LoopStops(connState)

\* C13: every access to paused, videoDisabled, audioDisabled and videoAuto is
\* made by a thread that holds peer.mu; the methods are steps that lock and
\* unlock, so what is left is estimatorReader reading the flags.
C13_FlagAccessUnderMonitor ==
  [][LoopReadsFlags => mu = "estimatorReader"]_vars

\* C14: SendCursorImage with len(img) > 65524 returns an encode error and
\* writes nothing, and no frame on the data channel has a header length
\* other than the number of bytes after its header.
C14_OversizedImageRejected ==
  /\ [](dcLast.length = dcLast.size)
  /\ [][\A imgLen \in ImageSizes, sendFails \in BOOLEAN :
          (SendCursorImage(imgLen, sendFails) /\ ImageLength + imgLen >= Uint16Range)
            => (cursorErr' = "EncodeError" /\ UNCHANGED <<dcFrames, dcLast>>)]_vars

\* C15: for a host, SendCursorPosition returns nil and writes nothing; for
\* any other session a call that returns nil has written exactly one frame,
\* the position frame.
C15_NoCursorPositionToHost ==
  [][\A x \in Coordinates, y \in Coordinates, sendFails \in BOOLEAN :
       SendCursorPosition(x, y, sendFails) =>
         /\ isHost => (cursorErr' = "nil" /\ UNCHANGED <<dcFrames, dcLast>>)
         /\ (~isHost /\ cursorErr' = "nil") =>
              (dcFrames' = dcFrames + 1 /\ dcLast' = PositionFrame(x, y))
         /\ cursorErr' # "nil" => UNCHANGED <<dcFrames, dcLast>>]_vars

\* a host whose data channel carries exactly the one position frame written
\* before the session became host, and whose last call returned nil
C15_Witness ==
  /\ isHost /\ cursorErr = "nil" /\ dcFrames = 1
  /\ dcLast = PositionFrame(65556, -1)

\* C16: the loop requests a downgrade only when every iteration of the last
\* UnstableDuration was on the downgrade path: at least UnstableDuration has
\* passed since the loop started and since its last iteration that was idle
\* or took the upgrade path.
C16_NoDowngradeBeforeUnstable ==
  loopPc = "reqLower" => sinceNotDown >= UnstableDuration

\* C17: with an estimator, the loop ends only in an iteration that finds the
\* connection Closed, whatever SetVideo returned and whatever else the
\* connection state is, and every iteration sets the target bitrate metric.
C17_LoopEndsOnlyOnClosed ==
  /\ [][(estimator /\ loopPc # "done" /\ loopPc' = "done")
          => (loopPc = "wait" /\ tickPending /\ connState = "Closed")]_vars
  /\ [][(tickPending /\ ~tickPending') => metricSet']_vars

\* the loop's downgrade has just returned StreamNotFound on a Failed
\* connection, and the loop goes on
C17_Witness ==
  /\ connState = "Failed" /\ loopPc = "retLower" /\ loopErr = "StreamNotFound"

\* C18: no goroutine is in session.Send while it holds peer.mu: SetVideo and
\* SetAudio only spawn the goroutine, and a goroutine reaches Send only out of
\* Video() / Audio(), with the lock released.
C18_SendOutsideMonitor ==
  /\ [](videoSending > 0 => mu # "videoSignal")
  /\ [](audioSending > 0 => mu # "audioSignal")
  /\ [][videoSending' > videoSending =>
          (videoSignals' = videoSignals - 1 /\ MuAvailable(mu) /\ mu' = Free)]_vars
  /\ [][audioSending' > audioSending =>
          (audioSignals' = audioSignals - 1 /\ MuAvailable(mu) /\ mu' = Free)]_vars

\* both signals are being sent while a CreateOffer holds the lock
C18_Witness ==
  /\ videoSending > 0 /\ audioSending > 0
  /\ mu = "negotiation" /\ \E c \in Callers : callPc[c] = "described"

\* C20: a SetVideo call that leaves videoDisabled, the bound stream and
\* videoAuto as they were spawns no SIGNAL_VIDEO goroutine and does not set
\* the video ID metric.
C20_UnchangedIsSilent ==
  [][\A r \in VideoRequests, rejected \in BOOLEAN :
       (/\ SetVideo(r, rejected)
        /\ videoDisabled' = videoDisabled
        /\ videoStream' = videoStream
        /\ videoAuto' = videoAuto)
         => (videoSignals' = videoSignals /\ ~PublishesVideoID(r, rejected))]_vars

\* video disabled, auto on, the lowest stream bound and every signal sent:
\* the requests that led here, made again, change nothing
C20_Witness ==
  /\ videoDisabled /\ videoAuto /\ videoStream = 1
  /\ videoSignals = 0 /\ videoSending = 0

\* C21: an iteration of the loop calls SetVideo at most once, the call carries
\* nothing but a Lower or Higher selector of the stream ID the iteration
\* sampled, and it leaves paused, videoDisabled, audioDisabled and videoAuto
\* (and with them the tracks' paused state) as they were.
C21_LoopRequestsSelectorOnly ==
  /\ [][LoopRequests =>
          /\ \E rejected \in BOOLEAN :
               SetVideo([disabled |-> <<>>,
                         selector |-> <<[type |-> IF loopPc = "reqLower" THEN "Lower"
                                                  ELSE "Higher",
                                         id |-> streamId]>>,
                         auto |-> <<>>], rejected)
          /\ UNCHANGED <<flagVars, videoTrackPaused, audioTrackPaused>>]_vars
  /\ [][(loopPc' \in {"reqLower", "reqHigher"} /\ loopPc' # loopPc)
          => (loopPc = "wait" /\ tickPending /\ ~tickPending' /\ streamId' = videoStream)]_vars
  /\ [][(loopPc \in {"reqLower", "reqHigher"} /\ loopPc' # loopPc) => LoopRequests]_vars
  /\ [][(loopPc \in {"retLower", "retHigher"} /\ loopPc' # loopPc) => loopPc' = "wait"]_vars

\* the loop's upgrade has just bound the highest stream, with auto still on
C21_Witness ==
  /\ loopPc = "retHigher" /\ loopErr = "nil" /\ videoStream = NumStreams
  /\ videoAuto /\ ~paused /\ ~videoDisabled

====
